---- MODULE Spec2Model ----
(***************************************************************************)
(* Model of src/location.rs: the interactive colour-selection session      *)
(* wait_for_location, its keyboard-grab retry loop and the pure helpers    *)
(* it calls.  One action per request, reply or event of the code; the      *)
(* program counter pc names the statement that runs next.                  *)
(***************************************************************************)
EXTENDS Integers, Sequences, FiniteSets, TLC

(* ------------------------------------------------------------------ *)
(* Bounds of the model                                                 *)
(* ------------------------------------------------------------------ *)
MaxDim == 3
MaxKeycode == 2
MaxButton == 2
MaxReplyTicks == 1
MaxOversleepTicks == 1
MaxRectDim == 5

(* ------------------------------------------------------------------ *)
(* Program constants                                                   *)
(* ------------------------------------------------------------------ *)
SELECTION_BUTTON == 1
KEYBOARD_GRAB_TIMEOUT == 1000
KEYBOARD_GRAB_RETRY_DELAY == 5
OFF_SCREEN == -10000
I16Min == -32768
I16Max == 32767
TRANSPARENT == 0

(* ------------------------------------------------------------------ *)
(* Input domains                                                       *)
(* ------------------------------------------------------------------ *)
Dims == 2..MaxDim
PreviewWidths == {2, 3}
Scales == {1, 2}
\* root coordinates an event or a pointer query can report (i16): on-screen,
\* just outside, and the two ends of the type
Coords == {I16Min, I16Max} \cup (-1..(MaxDim - 1))
Points == Coords \X Coords
\* XKeysymToKeycode: 0 is "no keycode", otherwise a keycode of the keyboard
KeyCodes == 1..MaxKeycode
Buttons == 1..MaxButton
\* arguments of render_magnifier_from_cache explored on their own: snapshots
\* smaller and larger than the extraction square, pointers on the screen, just
\* off it and at the ends of i16
RectDims == 1..MaxRectDim
RectCoords == {I16Min, I16Max} \cup (-2..(MaxRectDim + 1))
RectPoints == RectCoords \X RectCoords
RectPreviewWidths == {1, 3, 5, 7}
RectScales == {1, 2}

\* clock granularities (ms): the interactive session runs on a coarse clock,
\* the retry loop alone is explored on fine ones
SessionTicks == {500}
RetryTicks == {1, 5}

Min(a, b) == IF a < b THEN a ELSE b
Max(a, b) == IF a > b THEN a ELSE b

VARIABLES
    pc,               \* statement of wait_for_location that runs next
    root_width, root_height,      \* screen.width_in_pixels(), height_in_pixels()
    preview_width, scale,         \* arguments (preview_width after ensure_odd)
    screen_visual,    \* whether the screen offers a 32-bit TrueColor visual
    escape_keycode, return_keycode,
    blank_cursor,     \* "none" | "live" | "freed"
    pointer_grab, keyboard_grab,  \* grabs currently held
    pointer_grabs, keyboard_grabs,\* how many times each grab was acquired
    screenshot_cache, \* the snapshot: sequence of colours, row-major
    captures,         \* number of window_rect captures made
    colormap,         \* "none" | "live" | "freed"
    win,              \* "none" | "unmapped" | "mapped" | "destroyed"
    win_pos,          \* position of the overlay window as last configured
    win_content,      \* frame last uploaded with put_image
    gc,               \* "none" | "live" | "freed"
    pointer_reply,    \* last reply to query_pointer
    initial_point,
    unflushed,        \* requests queued and not yet flushed
    requests,         \* requests the step taken last sent, in order
    shown,            \* the overlay has been mapped and moved on-screen
    entered,          \* the event loop has been entered
    event,            \* the event the loop handled last
    result,           \* value of the loop expression
    ret,              \* value returned by wait_for_location
    kbpc, attempts, elapsed, tick \* grab_keyboard_with_retry: position, attempts
                                  \* made, ms since start, clock granularity

vars == << pc, root_width, root_height, preview_width, scale, screen_visual,
           escape_keycode, return_keycode, blank_cursor, pointer_grab,
           keyboard_grab, pointer_grabs, keyboard_grabs, screenshot_cache,
           captures, colormap, win, win_pos, win_content, gc, pointer_reply,
           initial_point, unflushed, requests, shown, entered, event, result,
           ret, kbpc, attempts, elapsed, tick >>

geometry == << root_width, root_height, preview_width, scale, screen_visual >>
keycodes == << escape_keycode, return_keycode >>
grabs == << pointer_grab, keyboard_grab, pointer_grabs, keyboard_grabs >>
snapshot == << screenshot_cache, captures >>
overlay == << win, win_pos, win_content, shown >>
retry == << kbpc, attempts, elapsed, tick >>
queried == << pointer_reply, initial_point >>

(* ------------------------------------------------------------------ *)
(* Values                                                              *)
(* ------------------------------------------------------------------ *)
NoEvent == [type |-> "none", detail |-> 0, x |-> 0, y |-> 0]
Unset == [tag |-> "Unset", color |-> 0]
None == [tag |-> "None", color |-> 0]
Some(c) == [tag |-> "Some", color |-> c]
Running == [tag |-> "Running", value |-> Unset]
Ok(v) == [tag |-> "Ok", value |-> v]
Err == [tag |-> "Err", value |-> Unset]
NoReply == [tag |-> "none", x |-> 0, y |-> 0]
Replied(p) == [tag |-> "ok", x |-> p[1], y |-> p[2]]
ReplyError == [tag |-> "error", x |-> 0, y |-> 0]
NoFrame == [side |-> 0, pixels |-> << >>, pixel_size |-> 0, panic |-> FALSE]

(* ------------------------------------------------------------------ *)
(* Pure helpers                                                        *)
(* ------------------------------------------------------------------ *)
\* util::EnsureOdd: an odd value is unchanged, an even one becomes the next odd
EnsureOdd(n) == IF n % 2 = 0 THEN n + 1 ELSE n

\* v.max(0) as usize).min(dim as usize - 1)
ClampCoordNoFloor(v, dim) == IF v < 0 THEN dim - 1 ELSE Min(v, dim - 1)
ClampCoord(v, dim) == Min(Max(v, 0), dim - 1)

\* y * root_width as usize + x
CacheIndexNoStride(x, y, width) == y + x
CacheIndex(x, y, width) == y * width + x

\* screenshot_cache[i], i counted from 0 as in the code
CacheAt(cache, i) == cache[i + 1]

\* i16 arithmetic as the release profile computes it (wrapping; a build with
\* overflow checks stops at -32768 - n instead), `as u16 as u32`, and the INT16
\* the server reads back
WrapI16(v) == ((v + 32768) % 65536) - 32768
AsU16(v) == v % 65536
WireToI16(u) == IF u >= 32768 THEN u - 65536 ELSE u

\* point.0 - (win_size as i16) / 2, handed to configure_window as u16 as u32
WindowOrigin(p, win_size) ==
    << WireToI16(AsU16(WrapI16(p[1] - (win_size \div 2)))),
       WireToI16(AsU16(WrapI16(p[2] - (win_size \div 2)))) >>

\* (pointer_x as isize) - (size / 2): where the square starts on one axis
RectOriginAtPointer(p, size) == p
RectOrigin(p, size) == p - (size \div 2)

\* size_x, size_y: how many columns (rows) the padded copy takes from the cache
\* on one axis, from the start after the shift and the shift itself
CopyExtentUnshifted(start, offset, size, dim) ==
    IF start + size > dim THEN dim - start ELSE size
CopyExtent(start, offset, size, dim) ==
    IF start + size > dim THEN dim - start ELSE size - offset

\* get_rect_from_cache.  panic is TRUE when an index leaves the cache or the
\* output buffer (the slice index panics); pixels is then empty.
get_rect_from_cache(cache, cache_width, cache_height, pointer, pw, sc) ==
    LET size == EnsureOdd(pw \div sc)
        x0 == RectOrigin(pointer[1], size)
        y0 == RectOrigin(pointer[2], size)
        x_offset == IF x0 < 0 THEN -x0 ELSE 0
        y_offset == IF y0 < 0 THEN -y0 ELSE 0
        x == x0 + x_offset
        y == y0 + y_offset
        size_x == CopyExtent(x, x_offset, size, cache_width)
        size_y == CopyExtent(y, y_offset, size, cache_height)
        len == Len(cache)
        \* fast path: rows y..y+size-1, columns x..x+size-1
        fastOob == \E row \in y..(y + size - 1) :
                       LET start == row * cache_width + x
                       IN  start < 0 \/ start + size > len
        fast == [p \in 1..(size * size) |->
                    CacheAt(cache, (y + ((p - 1) \div size)) * cache_width
                                   + x + ((p - 1) % size))]
        \* slow path: for cx in 0..size_x, for cy in 0..size_y
        cells == (0..(size_x - 1)) \X (0..(size_y - 1))
        cache_idx(c) == (c[2] + y) * cache_width + (c[1] + x)
        pixels_idx(c) == (c[2] + y_offset) * size + (c[1] + x_offset)
        order(c) == c[1] * Max(size_y, 1) + c[2]
        slowOob == \E c \in cells :
                       \/ cache_idx(c) < 0 \/ cache_idx(c) >= len
                       \/ pixels_idx(c) < 0 \/ pixels_idx(c) >= size * size
        writers(p) == {c \in cells : pixels_idx(c) = p}
        last(p) == CHOOSE c \in writers(p) :
                       \A d \in writers(p) : order(d) <= order(c)
        slow == [p \in 1..(size * size) |->
                    IF writers(p - 1) = {} THEN TRANSPARENT
                    ELSE CacheAt(cache, cache_idx(last(p - 1)))]
    IN  IF size_x = size /\ size_y = size
        THEN IF fastOob THEN [side |-> size, pixels |-> << >>, panic |-> TRUE]
             ELSE [side |-> size, pixels |-> fast, panic |-> FALSE]
        ELSE IF slowOob THEN [side |-> size, pixels |-> << >>, panic |-> TRUE]
             ELSE [side |-> size, pixels |-> slow, panic |-> FALSE]

\* pixel_size: pixels.width() / screenshot.width(), then +1 if even, +2 if odd
PixelSizeNextInteger(pw, side) == (pw \div side) + 1
PixelSize(pw, side) ==
    LET q == pw \div side
    IN  IF q % 2 = 0 THEN q + 1 ELSE q + 2

\* render_magnifier_from_cache: the source square and the replication factor
\* handed to draw_magnifying_glass (the drawing routine itself is external)
render_magnifier_from_cache(cache, cache_width, cache_height, point, pw, sc) ==
    LET rect == get_rect_from_cache(cache, cache_width, cache_height, point, pw, sc)
    IN  [side |-> rect.side, pixels |-> rect.pixels,
         pixel_size |-> PixelSize(pw, rect.side), panic |-> rect.panic]

\* color::window_rect on the root window: the full-screen capture of a screen
\* of the given size, row-major; every pixel has a colour of its own, so that
\* a colour names the position it was read from
ScreenImage(w, h) == [i \in 1..(w * h) |-> i]
\* the same screen captured while the overlay is displayed on it
ScreenImageWithOverlay(w, h) == [i \in 1..(w * h) |-> w * h + i]

(* ------------------------------------------------------------------ *)
(* wait_for_location: set-up                                           *)
(* ------------------------------------------------------------------ *)
\* State on entry, after `preview_width.ensure_odd()`.  The session is explored
\* on screens at least as large as the extraction square.
Init ==
    /\ pc = "escape_keycode"
    /\ \E w \in Dims, h \in Dims, pw \in PreviewWidths, sc \in Scales :
          /\ EnsureOdd(EnsureOdd(pw) \div sc) <= w
          /\ EnsureOdd(EnsureOdd(pw) \div sc) <= h
          /\ root_width = w
          /\ root_height = h
          /\ preview_width = EnsureOdd(pw)
          /\ scale = sc
    /\ screen_visual \in BOOLEAN
    /\ escape_keycode = 0
    /\ return_keycode = 0
    /\ blank_cursor = "none"
    /\ pointer_grab = FALSE
    /\ keyboard_grab = FALSE
    /\ pointer_grabs = 0
    /\ keyboard_grabs = 0
    /\ screenshot_cache = << >>
    /\ captures = 0
    /\ colormap = "none"
    /\ win = "none"
    /\ win_pos = << OFF_SCREEN, OFF_SCREEN >>
    /\ win_content = NoFrame
    /\ gc = "none"
    /\ pointer_reply = NoReply
    /\ initial_point = << 0, 0 >>
    /\ unflushed = FALSE
    /\ requests = << >>
    /\ shown = FALSE
    /\ entered = FALSE
    /\ event = NoEvent
    /\ result = Unset
    /\ ret = Running
    /\ kbpc = "idle"
    /\ attempts = 0
    /\ elapsed = 0
    /\ tick \in SessionTicks

\* `return Err(..)` / the `?` operator: leave the function at once
ReturnErr ==
    /\ pc' = "returned"
    /\ ret' = Err

\* line 237: escape_keycode(conn)?
escape_keycode_resolved ==
    /\ pc = "escape_keycode"
    /\ \E k \in KeyCodes : escape_keycode' = k
    /\ pc' = "return_keycode"
    /\ requests' = << >>
    /\ UNCHANGED << geometry, return_keycode, blank_cursor, grabs, snapshot,
                    colormap, overlay, gc, queried, unflushed, entered,
                    event, result, ret, retry >>

escape_keycode_unresolved ==
    /\ pc = "escape_keycode"
    /\ ReturnErr
    /\ requests' = << >>
    /\ UNCHANGED << geometry, keycodes, blank_cursor, grabs, snapshot,
                    colormap, overlay, gc, queried, unflushed, entered,
                    event, result, retry >>

\* line 238: return_keycode(conn)?
return_keycode_resolved ==
    /\ pc = "return_keycode"
    /\ \E k \in KeyCodes : return_keycode' = k
    /\ pc' = "create_blank_cursor"
    /\ requests' = << >>
    /\ UNCHANGED << geometry, escape_keycode, blank_cursor, grabs, snapshot,
                    colormap, overlay, gc, queried, unflushed, entered,
                    event, result, ret, retry >>

return_keycode_unresolved ==
    /\ pc = "return_keycode"
    /\ ReturnErr
    /\ requests' = << >>
    /\ UNCHANGED << geometry, keycodes, blank_cursor, grabs, snapshot,
                    colormap, overlay, gc, queried, unflushed, entered,
                    event, result, retry >>

\* line 241: create_blank_cursor(conn, screen)? (always Ok; flushes)
create_blank_cursor ==
    /\ pc = "create_blank_cursor"
    /\ blank_cursor' = "live"
    /\ unflushed' = FALSE
    /\ pc' = "grab_pointer"
    /\ requests' = << "create_pixmap", "create_gc", "poly_fill_rectangle", "create_cursor",
                     "free_gc", "free_pixmap", "flush" >>
    /\ UNCHANGED << geometry, keycodes, grabs, snapshot, colormap, overlay, gc,
                    queried, entered, event, result, ret, retry >>

\* line 242: grab_pointer(conn, root, blank_cursor)?, status Success
grab_pointer_success ==
    /\ pc = "grab_pointer"
    /\ pointer_grab' = TRUE
    /\ pointer_grabs' = pointer_grabs + 1
    /\ unflushed' = FALSE
    /\ pc' = "window_rect"
    /\ requests' = << "grab_pointer" >>
    /\ UNCHANGED << geometry, keycodes, blank_cursor, keyboard_grab,
                    keyboard_grabs, snapshot, colormap, overlay, gc,
                    queried, entered, event, result, ret, retry >>

\* lines 60-64: the reply is an error, or its status is not Success
grab_pointer_failed ==
    /\ pc = "grab_pointer"
    /\ unflushed' = FALSE
    /\ ReturnErr
    /\ requests' = << "grab_pointer" >>
    /\ UNCHANGED << geometry, keycodes, blank_cursor, grabs, snapshot,
                    colormap, overlay, gc, queried, entered, event,
                    result, retry >>

\* line 251: color::window_rect(conn, root, (0, 0, root_width, root_height))?
window_rect_captured ==
    /\ pc = "window_rect"
    /\ screenshot_cache' = ScreenImage(root_width, root_height)
    /\ captures' = captures + 1
    /\ unflushed' = FALSE
    /\ pc' = "find_argb_visual"
    /\ requests' = << "get_image" >>
    /\ UNCHANGED << geometry, keycodes, blank_cursor, grabs, colormap, overlay,
                    gc, queried, entered, event, result, ret, retry >>

window_rect_failed ==
    /\ pc = "window_rect"
    /\ unflushed' = FALSE
    /\ ReturnErr
    /\ requests' = << "get_image" >>
    /\ UNCHANGED << geometry, keycodes, blank_cursor, grabs, snapshot,
                    colormap, overlay, gc, queried, entered, event,
                    result, retry >>

\* lines 254-255: find_argb_visual(screen).ok_or_else(..)?
find_argb_visual_found ==
    /\ pc = "find_argb_visual"
    /\ screen_visual
    /\ pc' = "create_colormap"
    /\ requests' = << >>
    /\ UNCHANGED << geometry, keycodes, blank_cursor, grabs, snapshot,
                    colormap, overlay, gc, queried, unflushed, entered,
                    event, result, ret, retry >>

find_argb_visual_none ==
    /\ pc = "find_argb_visual"
    /\ ~screen_visual
    /\ ReturnErr
    /\ requests' = << >>
    /\ UNCHANGED << geometry, keycodes, blank_cursor, grabs, snapshot,
                    colormap, overlay, gc, queried, unflushed, entered,
                    event, result, retry >>

\* lines 258-265
create_colormap ==
    /\ pc = "create_colormap"
    /\ colormap' = "live"
    /\ unflushed' = TRUE
    /\ pc' = "query_pointer"
    /\ requests' = << "create_colormap" >>
    /\ UNCHANGED << geometry, keycodes, blank_cursor, grabs, snapshot, overlay,
                    gc, queried, entered, event, result, ret, retry >>

\* lines 268-269: xproto::query_pointer(conn, root).get_reply()?
query_pointer_replied ==
    /\ pc = "query_pointer"
    /\ \E p \in Points :
          /\ pointer_reply' = Replied(p)
          /\ initial_point' = p
    /\ unflushed' = FALSE
    /\ pc' = "create_window"
    /\ requests' = << "query_pointer" >>
    /\ UNCHANGED << geometry, keycodes, blank_cursor, grabs, snapshot,
                    colormap, overlay, gc, entered, event, result, ret, retry >>

query_pointer_failed ==
    /\ pc = "query_pointer"
    /\ pointer_reply' = ReplyError
    /\ unflushed' = FALSE
    /\ ReturnErr
    /\ requests' = << "query_pointer" >>
    /\ UNCHANGED << geometry, keycodes, blank_cursor, grabs, snapshot,
                    colormap, overlay, gc, initial_point, entered, event,
                    result, retry >>

\* lines 274-294: the overlay window is created off-screen
create_window ==
    /\ pc = "create_window"
    /\ win' = "unmapped"
    /\ win_pos' = << OFF_SCREEN, OFF_SCREEN >>
    /\ unflushed' = TRUE
    /\ pc' = "create_gc"
    /\ requests' = << "create_window" >>
    /\ UNCHANGED << geometry, keycodes, blank_cursor, grabs, snapshot,
                    colormap, win_content, shown, gc, queried, entered,
                    event, result, ret, retry >>

\* lines 297-298
create_gc ==
    /\ pc = "create_gc"
    /\ gc' = "live"
    /\ unflushed' = TRUE
    /\ pc' = "map_window"
    /\ requests' = << "create_gc" >>
    /\ UNCHANGED << geometry, keycodes, blank_cursor, grabs, snapshot,
                    colormap, overlay, queried, entered, event, result,
                    ret, retry >>

\* a set-up that leaves the window unmapped at this point
map_window_deferred ==
    /\ pc = "map_window"
    /\ unflushed' = FALSE
    /\ pc' = "put_image"
    /\ requests' = << "flush" >>
    /\ UNCHANGED << geometry, keycodes, blank_cursor, grabs, snapshot,
                    colormap, overlay, gc, queried, entered, event, result,
                    ret, retry >>

\* lines 301-302: map_window, flush
map_window ==
    /\ pc = "map_window"
    /\ win' = "mapped"
    /\ unflushed' = FALSE
    /\ pc' = "put_image"
    /\ requests' = << "map_window", "flush" >>
    /\ UNCHANGED << geometry, keycodes, blank_cursor, grabs, snapshot,
                    colormap, win_pos, win_content, shown, gc, queried,
                    entered, event, result, ret, retry >>

\* a set-up that grabs the keyboard right after the upload, before the move
put_initial_image_then_grab ==
    /\ pc = "put_image"
    /\ win_content' = render_magnifier_from_cache(screenshot_cache, root_width,
                          root_height, initial_point, preview_width, scale)
    /\ unflushed' = TRUE
    /\ pc' = "grab_keyboard"
    /\ kbpc' = "attempt"
    /\ requests' = << "put_image" >>
    /\ UNCHANGED << geometry, keycodes, blank_cursor, grabs, snapshot,
                    colormap, win, win_pos, shown, gc, queried, entered,
                    event, result, ret, attempts, elapsed, tick >>

\* lines 305-325: render the initial frame from the cache and upload it
put_initial_image ==
    /\ pc = "put_image"
    /\ win_content' = render_magnifier_from_cache(screenshot_cache, root_width,
                          root_height, initial_point, preview_width, scale)
    /\ unflushed' = TRUE
    /\ pc' = "configure_window"
    /\ requests' = << "put_image" >>
    /\ UNCHANGED << geometry, keycodes, blank_cursor, grabs, snapshot,
                    colormap, win, win_pos, shown, gc, queried, entered,
                    event, result, ret, retry >>

\* lines 328-338: move the window on-screen, flush; then line 339 starts
\* grab_keyboard_with_retry (line 71: start = Instant::now()).  The reply and
\* initial_point are not read again.
configure_window ==
    /\ pc = "configure_window"
    /\ win_pos' = WindowOrigin(initial_point, preview_width)
    /\ shown' = TRUE
    /\ unflushed' = FALSE
    /\ pc' = "grab_keyboard"
    /\ kbpc' = "attempt"
    /\ attempts' = 0
    /\ elapsed' = 0
    /\ pointer_reply' = NoReply
    /\ initial_point' = << 0, 0 >>
    /\ requests' = << "configure_window", "flush" >>
    /\ UNCHANGED << geometry, keycodes, blank_cursor, grabs, snapshot,
                    colormap, win, win_content, gc, entered, event, result,
                    ret, tick >>

(* ------------------------------------------------------------------ *)
(* grab_keyboard_with_retry                                            *)
(* ------------------------------------------------------------------ *)
\* time one grab_keyboard round trip may take on a clock of granularity t
ReplyTimes(t) == { j * t : j \in 0..MaxReplyTicks }
\* thread::sleep(KEYBOARD_GRAB_RETRY_DELAY) sleeps at least the delay: the
\* first clock tick at or after it, or later
SleepTimes(t) ==
    { (((KEYBOARD_GRAB_RETRY_DELAY + t) - 1) \div t) * t + j * t :
          j \in 0..MaxOversleepTicks }

\* line 88: start.elapsed() >= KEYBOARD_GRAB_TIMEOUT
DeadlinePassedStrict(e) == e > KEYBOARD_GRAB_TIMEOUT
DeadlinePassed(e) == e >= KEYBOARD_GRAB_TIMEOUT

\* lines 74-86: the attempt succeeds
grab_keyboard_success ==
    /\ pc = "grab_keyboard"
    /\ kbpc = "attempt"
    /\ attempts' = attempts + 1
    /\ \E d \in ReplyTimes(tick) : elapsed' = elapsed + d
    /\ keyboard_grab' = TRUE
    /\ keyboard_grabs' = keyboard_grabs + 1
    /\ kbpc' = "ok"
    /\ requests' = << "grab_keyboard" >>
    /\ UNCHANGED << pc, geometry, keycodes, blank_cursor, pointer_grab,
                    pointer_grabs, snapshot, colormap, overlay, gc,
                    queried, unflushed, entered, event, result, ret,
                    tick >>

\* lines 74-90: the attempt is refused; the deadline is checked
grab_keyboard_refused ==
    /\ pc = "grab_keyboard"
    /\ kbpc = "attempt"
    /\ attempts' = attempts + 1
    /\ \E d \in ReplyTimes(tick) : elapsed' = elapsed + d
    /\ kbpc' = IF DeadlinePassed(elapsed') THEN "exhausted" ELSE "sleep"
    /\ requests' = << "grab_keyboard" >>
    /\ UNCHANGED << pc, geometry, keycodes, blank_cursor, grabs, snapshot,
                    colormap, overlay, gc, queried, unflushed, entered,
                    event, result, ret, tick >>

\* line 82: get_reply()? on a transport error
grab_keyboard_error ==
    /\ pc = "grab_keyboard"
    /\ kbpc = "attempt"
    /\ attempts' = attempts + 1
    /\ \E d \in ReplyTimes(tick) : elapsed' = elapsed + d
    /\ kbpc' = "error"
    /\ requests' = << "grab_keyboard" >>
    /\ UNCHANGED << pc, geometry, keycodes, blank_cursor, grabs, snapshot,
                    colormap, overlay, gc, queried, unflushed, entered,
                    event, result, ret, tick >>

\* line 92: thread::sleep(KEYBOARD_GRAB_RETRY_DELAY)
retry_sleep ==
    /\ pc = "grab_keyboard"
    /\ kbpc = "sleep"
    /\ \E d \in SleepTimes(tick) : elapsed' = elapsed + d
    /\ kbpc' = "attempt"
    /\ requests' = << >>
    /\ UNCHANGED << pc, geometry, keycodes, blank_cursor, grabs, snapshot,
                    colormap, overlay, gc, queried, unflushed, entered,
                    event, result, ret, attempts, tick >>

\* line 339: `?` lets only Ok(()) continue
KeyboardGrabResultIgnored == kbpc \in {"ok", "exhausted", "error"}
KeyboardGrabOk == kbpc = "ok"

\* line 339: grab_keyboard_with_retry returned Ok(()); the loop is entered
grab_keyboard_ok ==
    /\ pc = "grab_keyboard"
    /\ KeyboardGrabOk
    /\ pc' = "loop"
    /\ entered' = TRUE
    /\ kbpc' = "idle"
    /\ attempts' = 0
    /\ elapsed' = 0
    /\ requests' = << >>
    /\ UNCHANGED << geometry, keycodes, blank_cursor, grabs, snapshot,
                    colormap, overlay, gc, queried, unflushed, event,
                    result, ret, tick >>

\* line 339: grab_keyboard_with_retry(conn, root)? returned Err
grab_keyboard_err ==
    /\ pc = "grab_keyboard"
    /\ kbpc \in {"exhausted", "error"}
    /\ ReturnErr
    /\ kbpc' = "idle"
    /\ attempts' = 0
    /\ elapsed' = 0
    /\ requests' = << >>
    /\ UNCHANGED << geometry, keycodes, blank_cursor, grabs, snapshot,
                    colormap, overlay, gc, queried, unflushed, entered,
                    event, result, tick >>

(* ------------------------------------------------------------------ *)
(* wait_for_location: the event loop                                   *)
(* ------------------------------------------------------------------ *)
\* line 348: event.detail() matches SELECTION_BUTTON
IsSelectionButtonAny(b) == TRUE
IsSelectionButton(b) == b = SELECTION_BUTTON

\* line 361: event.detail() == escape_keycode
IsEscapeNever(k) == FALSE
IsEscape(k) == k = escape_keycode

\* line 363: else if event.detail() == return_keycode
IsReturn(k) == ~IsEscape(k) /\ k = return_keycode

\* lines 350-354 and 365-369: the colour of the cache at the clamped position
ColorAt(x, y) ==
    CacheAt(screenshot_cache,
            CacheIndex(ClampCoord(x, root_width), ClampCoord(y, root_height),
                       root_width))

\* lines 345-355: press of the primary button at root (x, y)
button_press_selection ==
    /\ pc = "loop"
    /\ \E b \in Buttons, x \in Coords, y \in Coords :
          /\ IsSelectionButton(b)
          /\ event' = [type |-> "button_press", detail |-> b, x |-> x, y |-> y]
          /\ result' = Some(ColorAt(x, y))
    /\ pc' = "unmap_window"
    /\ requests' = << >>
    /\ UNCHANGED << geometry, keycodes, blank_cursor, grabs, snapshot,
                    colormap, overlay, gc, queried, unflushed, entered,
                    ret, retry >>

\* line 356: press of another button
button_press_other ==
    /\ pc = "loop"
    /\ \E b \in Buttons :
          /\ ~IsSelectionButton(b)
          /\ event' = [type |-> "button_press", detail |-> b, x |-> 0, y |-> 0]
    /\ requests' = << >>
    /\ UNCHANGED << pc, geometry, keycodes, blank_cursor, grabs, snapshot,
                    colormap, overlay, gc, queried, unflushed, entered,
                    result, ret, retry >>

\* lines 361-362: Escape
key_press_escape ==
    /\ pc = "loop"
    /\ \E k \in KeyCodes :
          /\ IsEscape(k)
          /\ event' = [type |-> "key_press", detail |-> k, x |-> 0, y |-> 0]
    /\ result' = None
    /\ pc' = "unmap_window"
    /\ requests' = << >>
    /\ UNCHANGED << geometry, keycodes, blank_cursor, grabs, snapshot,
                    colormap, overlay, gc, queried, unflushed, entered,
                    ret, retry >>

\* lines 363-369: Return, and query_pointer replies (x, y)
key_press_return ==
    /\ pc = "loop"
    /\ \E k \in KeyCodes, q \in Points :
          /\ IsReturn(k)
          /\ event' = [type |-> "key_press", detail |-> k, x |-> 0, y |-> 0]
          /\ pointer_reply' = Replied(q)
          /\ result' = Some(ColorAt(q[1], q[2]))
    /\ unflushed' = FALSE
    /\ pc' = "unmap_window"
    /\ requests' = << "query_pointer" >>
    /\ UNCHANGED << geometry, keycodes, blank_cursor, grabs, snapshot,
                    colormap, overlay, gc, initial_point, entered, ret, retry >>

\* line 364: Return, and the query_pointer reply is an error: `?` returns it
key_press_return_failed ==
    /\ pc = "loop"
    /\ \E k \in KeyCodes :
          /\ IsReturn(k)
          /\ event' = [type |-> "key_press", detail |-> k, x |-> 0, y |-> 0]
    /\ pointer_reply' = ReplyError
    /\ unflushed' = FALSE
    /\ ReturnErr
    /\ requests' = << "query_pointer" >>
    /\ UNCHANGED << geometry, keycodes, blank_cursor, grabs, snapshot,
                    colormap, overlay, gc, initial_point, entered, result,
                    retry >>

\* lines 361-371: any other key
key_press_other ==
    /\ pc = "loop"
    /\ \E k \in KeyCodes :
          /\ ~IsEscape(k)
          /\ ~IsReturn(k)
          /\ event' = [type |-> "key_press", detail |-> k, x |-> 0, y |-> 0]
    /\ requests' = << >>
    /\ UNCHANGED << pc, geometry, keycodes, blank_cursor, grabs, snapshot,
                    colormap, overlay, gc, queried, unflushed, entered,
                    result, ret, retry >>

\* a motion handler that captures the root window again before rendering
motion_notify_recapturing ==
    /\ pc = "loop"
    /\ captures < 2
    /\ screenshot_cache' = ScreenImageWithOverlay(root_width, root_height)
    /\ captures' = captures + 1
    /\ \E p \in Points :
          /\ event' = [type |-> "motion_notify", detail |-> 0,
                       x |-> p[1], y |-> p[2]]
          /\ win_content' = render_magnifier_from_cache(screenshot_cache',
                                root_width, root_height, p, preview_width, scale)
          /\ win_pos' = WindowOrigin(p, preview_width)
    /\ unflushed' = FALSE
    /\ requests' = << "get_image", "put_image", "configure_window", "flush" >>
    /\ UNCHANGED << pc, geometry, keycodes, blank_cursor, grabs, colormap, win,
                    shown, gc, queried, entered, result, ret, retry >>

\* lines 372-412: pointer motion to root (x, y)
motion_notify ==
    /\ pc = "loop"
    /\ \E p \in Points :
          /\ event' = [type |-> "motion_notify", detail |-> 0,
                       x |-> p[1], y |-> p[2]]
          /\ win_content' = render_magnifier_from_cache(screenshot_cache, root_width,
                                root_height, p, preview_width, scale)
          /\ win_pos' = WindowOrigin(p, preview_width)
    /\ unflushed' = FALSE
    /\ requests' = << "put_image", "configure_window", "flush" >>
    /\ UNCHANGED << pc, geometry, keycodes, blank_cursor, grabs, snapshot,
                    colormap, win, shown, gc, queried, entered, result,
                    ret, retry >>

\* a handler that uploads the frame again on an event of another type
other_event_redraws ==
    /\ pc = "loop"
    /\ event' = [type |-> "other", detail |-> 0, x |-> 0, y |-> 0]
    /\ unflushed' = FALSE
    /\ requests' = << "put_image", "flush" >>
    /\ UNCHANGED << pc, geometry, keycodes, blank_cursor, grabs, snapshot,
                    colormap, overlay, gc, queried, entered, result, ret,
                    retry >>

\* line 413: an event of any other type
other_event ==
    /\ pc = "loop"
    /\ event' = [type |-> "other", detail |-> 0, x |-> 0, y |-> 0]
    /\ requests' = << >>
    /\ UNCHANGED << pc, geometry, keycodes, blank_cursor, grabs, snapshot,
                    colormap, overlay, gc, queried, unflushed, entered,
                    result, ret, retry >>

\* lines 415-417: wait_for_event returned no event
event_stream_end ==
    /\ pc = "loop"
    /\ event' = [type |-> "end_of_stream", detail |-> 0, x |-> 0, y |-> 0]
    /\ result' = None
    /\ pc' = "unmap_window"
    /\ requests' = << >>
    /\ UNCHANGED << geometry, keycodes, blank_cursor, grabs, snapshot,
                    colormap, overlay, gc, queried, unflushed, entered,
                    ret, retry >>

(* ------------------------------------------------------------------ *)
(* wait_for_location: cleanup (lines 420-430)                          *)
(* ------------------------------------------------------------------ *)
unmap_window ==
    /\ pc = "unmap_window"
    /\ win' = "unmapped"
    /\ unflushed' = TRUE
    /\ pc' = "destroy_window"
    /\ requests' = << "unmap_window" >>
    /\ UNCHANGED << geometry, keycodes, blank_cursor, grabs, snapshot,
                    colormap, win_pos, win_content, shown, gc, queried,
                    entered, event, result, ret, retry >>

destroy_window ==
    /\ pc = "destroy_window"
    /\ win' = "destroyed"
    /\ win_pos' = << OFF_SCREEN, OFF_SCREEN >>
    /\ win_content' = NoFrame
    /\ unflushed' = TRUE
    /\ pc' = "free_gc"
    /\ requests' = << "destroy_window" >>
    /\ UNCHANGED << geometry, keycodes, blank_cursor, grabs, snapshot,
                    colormap, shown, gc, queried, entered, event, result, ret,
                    retry >>

free_gc ==
    /\ pc = "free_gc"
    /\ gc' = "freed"
    /\ unflushed' = TRUE
    /\ pc' = "free_colormap"
    /\ requests' = << "free_gc" >>
    /\ UNCHANGED << geometry, keycodes, blank_cursor, grabs, snapshot,
                    colormap, overlay, queried, entered, event, result, ret,
                    retry >>

free_colormap ==
    /\ pc = "free_colormap"
    /\ colormap' = "freed"
    /\ unflushed' = TRUE
    /\ pc' = "ungrab_keyboard"
    /\ requests' = << "free_colormap" >>
    /\ UNCHANGED << geometry, keycodes, blank_cursor, grabs, snapshot, overlay,
                    gc, queried, entered, event, result, ret, retry >>

ungrab_keyboard ==
    /\ pc = "ungrab_keyboard"
    /\ keyboard_grab' = FALSE
    /\ unflushed' = TRUE
    /\ pc' = "ungrab_pointer"
    /\ requests' = << "ungrab_keyboard" >>
    /\ UNCHANGED << geometry, keycodes, blank_cursor, pointer_grab,
                    pointer_grabs, keyboard_grabs, snapshot, colormap, overlay,
                    gc, queried, entered, event, result, ret, retry >>

ungrab_pointer ==
    /\ pc = "ungrab_pointer"
    /\ pointer_grab' = FALSE
    /\ unflushed' = TRUE
    /\ pc' = "free_cursor"
    /\ requests' = << "ungrab_pointer" >>
    /\ UNCHANGED << geometry, keycodes, blank_cursor, keyboard_grab,
                    pointer_grabs, keyboard_grabs, snapshot, colormap, overlay,
                    gc, queried, entered, event, result, ret, retry >>

free_cursor ==
    /\ pc = "free_cursor"
    /\ blank_cursor' = "freed"
    /\ unflushed' = TRUE
    /\ pc' = "flush"
    /\ requests' = << "free_cursor" >>
    /\ UNCHANGED << geometry, keycodes, grabs, snapshot, colormap, overlay, gc,
                    queried, entered, event, result, ret, retry >>

\* lines 428-430: conn.flush(); Ok(result)
flush_and_return ==
    /\ pc = "flush"
    /\ unflushed' = FALSE
    /\ pc' = "returned"
    /\ ret' = Ok(result)
    /\ requests' = << "flush" >>
    /\ UNCHANGED << geometry, keycodes, blank_cursor, grabs, snapshot,
                    colormap, overlay, gc, queried, entered, event, result,
                    retry >>

(* ------------------------------------------------------------------ *)
(* Specifications                                                      *)
(* ------------------------------------------------------------------ *)
Setup ==
    \/ escape_keycode_resolved \/ escape_keycode_unresolved
    \/ return_keycode_resolved \/ return_keycode_unresolved
    \/ create_blank_cursor
    \/ grab_pointer_success \/ grab_pointer_failed
    \/ window_rect_captured \/ window_rect_failed
    \/ find_argb_visual_found \/ find_argb_visual_none
    \/ create_colormap
    \/ query_pointer_replied \/ query_pointer_failed
    \/ create_window \/ create_gc \/ map_window
    \/ put_initial_image \/ configure_window

GrabKeyboardWithRetry ==
    \/ grab_keyboard_success \/ grab_keyboard_refused
    \/ grab_keyboard_error \/ retry_sleep

EventLoop ==
    \/ button_press_selection \/ button_press_other
    \/ key_press_escape \/ key_press_return \/ key_press_return_failed
    \/ key_press_other \/ motion_notify \/ other_event \/ event_stream_end

Cleanup ==
    \/ unmap_window \/ destroy_window \/ free_gc \/ free_colormap
    \/ ungrab_keyboard \/ ungrab_pointer \/ free_cursor \/ flush_and_return

Next ==
    \/ Setup
    \/ GrabKeyboardWithRetry
    \/ grab_keyboard_ok \/ grab_keyboard_err
    \/ EventLoop
    \/ Cleanup

Spec == Init /\ [][Next]_vars

\* grab_keyboard_with_retry alone, called at line 339 of a session on the
\* smallest screen, on a fine clock
InitRetry ==
    /\ pc = "grab_keyboard"
    /\ root_width = 2
    /\ root_height = 2
    /\ preview_width = EnsureOdd(2)
    /\ scale = 2
    /\ screen_visual = TRUE
    /\ escape_keycode = 1
    /\ return_keycode = MaxKeycode
    /\ blank_cursor = "live"
    /\ pointer_grab = TRUE
    /\ keyboard_grab = FALSE
    /\ pointer_grabs = 1
    /\ keyboard_grabs = 0
    /\ screenshot_cache = ScreenImage(2, 2)
    /\ captures = 1
    /\ colormap = "live"
    /\ win = "mapped"
    /\ win_pos = WindowOrigin(<< 0, 0 >>, EnsureOdd(2))
    /\ win_content = render_magnifier_from_cache(ScreenImage(2, 2), 2, 2,
                         << 0, 0 >>, EnsureOdd(2), 2)
    /\ gc = "live"
    /\ pointer_reply = NoReply
    /\ initial_point = << 0, 0 >>
    /\ unflushed = FALSE
    /\ requests = << "configure_window", "flush" >>
    /\ shown = TRUE
    /\ entered = FALSE
    /\ event = NoEvent
    /\ result = Unset
    /\ ret = Running
    /\ kbpc = "attempt"
    /\ attempts = 0
    /\ elapsed = 0
    /\ tick \in RetryTicks

\* every grab attempt returns and every sleep ends
SpecRetry == InitRetry /\ [][GrabKeyboardWithRetry]_vars
                 /\ WF_vars(GrabKeyboardWithRetry)

\* render_magnifier_from_cache alone, as lines 305 and 378 call it, for snapshots
\* of any size: the arguments are drawn at the start, the call either returns
\* the frame or panics on a slice index
InitRender ==
    /\ pc = "render"
    /\ root_width \in RectDims
    /\ root_height \in RectDims
    /\ preview_width \in RectPreviewWidths
    /\ scale \in RectScales
    /\ screen_visual = TRUE
    /\ escape_keycode = 1
    /\ return_keycode = MaxKeycode
    /\ blank_cursor = "live"
    /\ pointer_grab = TRUE
    /\ keyboard_grab = FALSE
    /\ pointer_grabs = 1
    /\ keyboard_grabs = 0
    /\ screenshot_cache = ScreenImage(root_width, root_height)
    /\ captures = 1
    /\ colormap = "live"
    /\ win = "mapped"
    /\ win_pos = << OFF_SCREEN, OFF_SCREEN >>
    /\ win_content = NoFrame
    /\ gc = "live"
    /\ pointer_reply = NoReply
    /\ initial_point \in RectPoints
    /\ unflushed = FALSE
    /\ requests = << >>
    /\ shown = FALSE
    /\ entered = FALSE
    /\ event = NoEvent
    /\ result = Unset
    /\ ret = Running
    /\ kbpc = "idle"
    /\ attempts = 0
    /\ elapsed = 0
    /\ tick = 1

\* lines 200-220: the call returns the frame
render_magnifier_returns ==
    /\ pc = "render"
    /\ LET frame == render_magnifier_from_cache(screenshot_cache, root_width,
                         root_height, initial_point, preview_width, scale)
       IN  /\ ~frame.panic
           /\ win_content' = frame
    /\ pc' = "rendered"
    /\ requests' = << >>
    /\ UNCHANGED << geometry, keycodes, blank_cursor, grabs, snapshot,
                    colormap, win, win_pos, shown, gc, queried, unflushed,
                    entered, event, result, ret, retry >>

\* lines 173 and 184: a slice index is out of range and the thread panics
render_magnifier_panics ==
    /\ pc = "render"
    /\ render_magnifier_from_cache(screenshot_cache, root_width, root_height,
                                   initial_point, preview_width, scale).panic
    /\ pc' = "panicked"
    /\ requests' = << >>
    /\ UNCHANGED << geometry, keycodes, blank_cursor, grabs, snapshot,
                    colormap, overlay, gc, queried, unflushed, entered,
                    event, result, ret, retry >>

NextRender == render_magnifier_returns \/ render_magnifier_panics

SpecRender == InitRender /\ [][NextRender]_vars

(* ------------------------------------------------------------------ *)
(* Properties                                                          *)
(* ------------------------------------------------------------------ *)
CleanupSteps == {"unmap_window", "destroy_window", "free_gc", "free_colormap",
                 "ungrab_keyboard", "ungrab_pointer", "free_cursor", "flush"}
\* the loop has been left: the function is cleaning up or has returned
LoopLeft == entered /\ pc \in CleanupSteps \cup {"returned"}
Clamped(v, dim) == IF v < 0 THEN 0 ELSE IF v > dim - 1 THEN dim - 1 ELSE v
SnapshotAt(x, y) ==
    screenshot_cache[Clamped(y, root_height) * root_width
                     + Clamped(x, root_width) + 1]
PrimaryPress == event.type = "button_press" /\ event.detail = SELECTION_BUTTON
EscapePress == event.type = "key_press" /\ event.detail = escape_keycode
ReturnPress == event.type = "key_press" /\ event.detail = return_keycode

\* C1: a press of the primary button at any i16 root coordinates (ex, ey) ends
\* the session with Ok(Some(c)), c the snapshot pixel at the coordinates
\* clamped to [0, W-1] x [0, H-1]; the index lies inside the snapshot.
C1_PrimaryPressPicksClampedPixel ==
    (LoopLeft /\ PrimaryPress) =>
        /\ Clamped(event.y, root_height) * root_width
               + Clamped(event.x, root_width) \in 0..(Len(screenshot_cache) - 1)
        /\ Len(screenshot_cache) = root_width * root_height
        /\ result = Some(SnapshotAt(event.x, event.y))
        /\ ret.tag # "Err"
        /\ (pc = "returned" => ret = Ok(Some(SnapshotAt(event.x, event.y))))

\* the session returned a colour for a press far off-screen in both axes
C1_Witness ==
    /\ pc = "returned"
    /\ PrimaryPress
    /\ event.x = I16Min
    /\ event.y = I16Max
    /\ ret = Ok(Some(screenshot_cache[(root_height - 1) * root_width + 1]))

\* C2: when the loop is left on an Escape key press or on the end of the event
\* stream, the loop yields None and wait_for_location returns Ok(None): never
\* a colour, never Err.
C2_CancellationYieldsNone ==
    (LoopLeft /\ (EscapePress \/ event.type = "end_of_stream")) =>
        /\ result = None
        /\ ret.tag # "Err"
        /\ (pc = "returned" => ret = Ok(None))

\* Escape was pressed on a keyboard whose Escape and Return share a keycode,
\* and the session returned Ok(None)
C2_Witness ==
    /\ pc = "returned"
    /\ EscapePress
    /\ escape_keycode = return_keycode
    /\ ret = Ok(None)

\* C3 as stated: every press of the Return keycode ends the session with
\* Ok(Some(colour)).
C3_ReturnAlwaysPicks ==
    (pc = "returned" /\ entered /\ ReturnPress) =>
        (ret.tag = "Ok" /\ ret.value.tag = "Some")

\* C3, amended: a press of the Return keycode that is not also the Escape
\* keycode queries the pointer; when the query replies (qx, qy) the session
\* ends with Ok(Some(c)), c the snapshot pixel at (qx, qy) clamped in each
\* axis; when the reply is an error the function returns Err.
C3_ReturnPicksAtQueriedPosition ==
    (LoopLeft /\ ReturnPress /\ event.detail # escape_keycode) =>
        /\ pointer_reply.tag \in {"ok", "error"}
        /\ pointer_reply.tag = "ok" =>
              /\ result = Some(SnapshotAt(pointer_reply.x, pointer_reply.y))
              /\ ret.tag # "Err"
              /\ (pc = "returned" =>
                     ret = Ok(Some(SnapshotAt(pointer_reply.x, pointer_reply.y))))
        /\ pointer_reply.tag = "error" => (pc = "returned" /\ ret = Err)

\* Return was pressed while the overlay showed another position than the one
\* the query replied, and the colour picked is the one at the replied position
C3_Witness ==
    /\ pc = "unmap_window"
    /\ ReturnPress
    /\ pointer_reply.tag = "ok"
    /\ win_pos # WindowOrigin(<< pointer_reply.x, pointer_reply.y >>, preview_width)
    /\ event.detail # escape_keycode
    /\ pointer_reply.x > root_width
    /\ result = Some(SnapshotAt(pointer_reply.x, pointer_reply.y))

\* C4: once the loop has been entered, the function returns only after the
\* whole cleanup: window destroyed, gc and colormap freed, both grabs
\* released, cursor freed, connection flushed.
C4_TeardownBeforeEveryReturn ==
    (pc = "returned" /\ entered) =>
        /\ win = "destroyed"
        /\ gc = "freed"
        /\ colormap = "freed"
        /\ ~keyboard_grab
        /\ ~pointer_grab
        /\ blank_cursor = "freed"
        /\ ~unflushed

\* C5: when a set-up step returns Err, every resource acquired so far has been
\* released.
C5_SetupFailureReleasesResources ==
    (pc = "returned" /\ ~entered /\ ret = Err) =>
        /\ blank_cursor # "live"
        /\ ~pointer_grab
        /\ colormap # "live"
        /\ win \notin {"unmapped", "mapped"}
        /\ gc # "live"

\* C6: Err is returned only while the overlay has not been shown.
C6_NoErrAfterOverlayShown ==
    (pc = "returned" /\ ret = Err) => ~shown

\* the four events that end the loop, and the ones it ignores or only renders
Terminal(e) ==
    \/ e.type = "button_press" /\ e.detail = SELECTION_BUTTON
    \/ e.type = "key_press" /\ e.detail = escape_keycode
    \/ e.type = "key_press" /\ e.detail = return_keycode
    \/ e.type = "end_of_stream"
NonTerminal(e) ==
    \/ e.type = "motion_notify"
    \/ e.type = "other"
    \/ e.type = "button_press" /\ e.detail # SELECTION_BUTTON
    \/ e.type = "key_press" /\ e.detail \notin {escape_keycode, return_keycode}

C8_SingleCaptureBeforeOverlay ==
    /\ [](captures <= 1)
    /\ [](win # "none" => captures = 1)
    /\ [](captures = 1 =>
             screenshot_cache = ScreenImage(root_width, root_height))
    /\ [][captures = 1 =>
             (captures' = 1 /\ screenshot_cache' = screenshot_cache)]_vars
    /\ []((pc = "loop" /\ event.type = "motion_notify") =>
             win_content = render_magnifier_from_cache(screenshot_cache,
                               root_width, root_height, << event.x, event.y >>,
                               preview_width, scale))
    /\ [](result.tag = "Some" =>
             \E i \in DOMAIN screenshot_cache : result.color = screenshot_cache[i])

\* a frame has been rendered for a motion event, after the one capture
C8_Witness ==
    /\ pc = "loop"
    /\ event.type = "motion_notify"
    /\ captures = 1
    /\ win = "mapped"
    /\ win_content.pixels # << >>

\* C9: the pointer grab is acquired before the keyboard grab, each once; while
\* the loop waits for or handles events both are held; each is released only
\* by its ungrab request in the cleanup.
C9_GrabsHeldThroughLoop ==
    /\ [](pointer_grabs <= 1 /\ keyboard_grabs <= 1)
    /\ [](keyboard_grabs = 1 => pointer_grabs = 1)
    /\ [](pc = "grab_keyboard" => (pointer_grab /\ pointer_grabs = 1))
    /\ [](pc = "loop" => (pointer_grab /\ keyboard_grab))
    /\ [][(keyboard_grab /\ ~keyboard_grab') => pc = "ungrab_keyboard"]_vars
    /\ [][(pointer_grab /\ ~pointer_grab') => pc = "ungrab_pointer"]_vars

\* the loop is running, an event handled, with both grabs held, each acquired
\* once
C9_Witness ==
    /\ pc = "loop"
    /\ event.type = "other"
    /\ pointer_grab
    /\ keyboard_grab
    /\ pointer_grabs = 1
    /\ keyboard_grabs = 1

\* grab_keyboard_with_retry has returned
RetryReturned == kbpc \in {"ok", "exhausted", "error"}
MaxAttempts == (KEYBOARD_GRAB_TIMEOUT \div KEYBOARD_GRAB_RETRY_DELAY) + 1

\* C10: grab_keyboard_with_retry terminates; it returns Ok on the first
\* successful attempt; it sleeps (at least 5 ms) and retries only while less
\* than 1 s has elapsed; it returns Err once a refused attempt is seen at
\* >= 1 s; it makes between 1 and 201 attempts; a transport error is returned
\* by the attempt that met it.
C10_RetryTerminatesWithinDeadline ==
    /\ <>RetryReturned
    /\ [](attempts <= MaxAttempts)
    /\ [](RetryReturned => attempts >= 1)
    /\ [](kbpc = "sleep" => elapsed < KEYBOARD_GRAB_TIMEOUT)
    /\ [](kbpc = "exhausted" =>
             (elapsed >= KEYBOARD_GRAB_TIMEOUT /\ ~keyboard_grab))
    /\ [](kbpc = "ok" <=> keyboard_grab)
    /\ [][kbpc = "sleep" =>
             (kbpc' = "attempt" /\ attempts' = attempts
              /\ elapsed' >= elapsed + KEYBOARD_GRAB_RETRY_DELAY)]_vars
    /\ [][kbpc = "attempt" =>
             (attempts' = attempts + 1
              /\ kbpc' \in {"ok", "sleep", "exhausted", "error"})]_vars
    /\ [][RetryReturned => (kbpc' = kbpc /\ attempts' = attempts)]_vars

\* the 201st attempt was refused at the deadline
C10_Witness ==
    /\ kbpc = "exhausted"
    /\ attempts = MaxAttempts
    /\ elapsed = KEYBOARD_GRAB_TIMEOUT

(* ------------------------------------------------------------------ *)
(* Properties of the extraction and the frame (SpecRender)             *)
(* ------------------------------------------------------------------ *)
\* the extraction side of the call's arguments
RectSide == EnsureOdd(preview_width \div scale)
\* the pointer argument is a pixel of the snapshot
PointerInScreen ==
    /\ initial_point[1] >= 0 /\ initial_point[1] < root_width
    /\ initial_point[2] >= 0 /\ initial_point[2] < root_height
\* the call has been made
RenderCalled == pc \in {"rendered", "panicked"}

\* C11: for a snapshot of any width and height and a pointer on the screen the
\* extraction returns (S, buffer) with S = ensure_odd(preview_width / scale),
\* S odd, and a buffer of exactly S * S elements
C11_RectIsOddSquare ==
    (RenderCalled /\ PointerInScreen) =>
        /\ pc = "rendered"
        /\ win_content.side = RectSide
        /\ win_content.side % 2 = 1
        /\ Len(win_content.pixels) = RectSide * RectSide

\* the snapshot pixel at screen coordinate (sx, sy), indexed by hand
SnapshotPixel(sx, sy) == screenshot_cache[sy * root_width + sx + 1]
\* screen coordinate shown at column (row) i of the buffer for pointer value v
ScreenCoord(v, i) == v - (RectSide \div 2) + i
\* the S x S square centred on the pointer lies inside the snapshot
SquareInside ==
    /\ ScreenCoord(initial_point[1], 0) >= 0
    /\ ScreenCoord(initial_point[1], RectSide) <= root_width
    /\ ScreenCoord(initial_point[2], 0) >= 0
    /\ ScreenCoord(initial_point[2], RectSide) <= root_height

\* C12: when the square centred on the pointer lies fully inside the snapshot,
\* buffer[r*S + c] is the snapshot pixel at (px - S/2 + c, py - S/2 + r) for
\* every row r and column c, and no position is transparent
C12_InsideSquareCopiesCache ==
    (RenderCalled /\ SquareInside) =>
        /\ pc = "rendered"
        /\ Len(win_content.pixels) = RectSide * RectSide
        /\ \A r \in 0..(RectSide - 1), c \in 0..(RectSide - 1) :
              /\ win_content.pixels[r * RectSide + c + 1] =
                     SnapshotPixel(ScreenCoord(initial_point[1], c),
                                   ScreenCoord(initial_point[2], r))
              /\ win_content.pixels[r * RectSide + c + 1] # TRANSPARENT

\* a 3 x 3 square copied from the inside of a wider and taller snapshot, away
\* from its top-left corner
C12_Witness ==
    /\ pc = "rendered"
    /\ SquareInside
    /\ RectSide = 3
    /\ root_width > RectSide
    /\ root_height > RectSide
    /\ ScreenCoord(initial_point[1], 0) > 0
    /\ ScreenCoord(initial_point[2], 0) > 0
    /\ win_content.pixels[1] = SnapshotPixel(initial_point[1] - 1,
                                             initial_point[2] - 1)

\* what position (r, c) of the buffer is to hold: the snapshot pixel at its
\* screen coordinate, or the transparent value when that is off the screen
PaddedPixel(r, c) ==
    LET sx == ScreenCoord(initial_point[1], c)
        sy == ScreenCoord(initial_point[2], r)
    IN  IF sx >= 0 /\ sx < root_width /\ sy >= 0 /\ sy < root_height
        THEN SnapshotPixel(sx, sy)
        ELSE TRANSPARENT
\* the returned buffer is the padded square around the pointer
BufferIsPaddedSquare ==
    /\ Len(win_content.pixels) = RectSide * RectSide
    /\ \A r \in 0..(RectSide - 1), c \in 0..(RectSide - 1) :
          win_content.pixels[r * RectSide + c + 1] = PaddedPixel(r, c)

\* C13: for a snapshot of any width and height (narrower or shorter than S
\* included) and a pointer on the screen within S/2 of an edge, a buffer that
\* is returned holds the transparent value at every position whose screen
\* coordinate is off the screen and the snapshot pixel at every other position
C13_EdgeSquareIsPadded ==
    (pc = "rendered" /\ PointerInScreen /\ ~SquareInside) =>
        BufferIsPaddedSquare

\* the frame for preview_width = 101 and scale = 4 at the centre of a 25 x 25
\* snapshot
FrameOf101By4 ==
    render_magnifier_from_cache(ScreenImage(25, 25), 25, 25, << 12, 12 >>,
                                101, 4)

\* C15: the replication factor handed to draw_magnifying_glass is odd and
\* greater than q = preview_width / S: q + 1 when q is even, q + 2 when q is
\* odd; preview_width = 101 and scale = 4 give side 25 and factor 5
C15_ReplicationFactorOdd ==
    /\ pc = "rendered" =>
          LET q == preview_width \div win_content.side
          IN  /\ win_content.side = RectSide
              /\ win_content.pixel_size % 2 = 1
              /\ win_content.pixel_size > q
              /\ (q % 2 = 0) => (win_content.pixel_size = q + 1)
              /\ (q % 2 = 1) => (win_content.pixel_size = q + 2)
    /\ FrameOf101By4.side = 25
    /\ FrameOf101By4.pixel_size = 5

\* a frame whose ratio q is even: preview_width 7 over side 3 gives q = 2 and
\* factor 3
C15_Witness ==
    /\ pc = "rendered"
    /\ preview_width = 7
    /\ win_content.side = 3
    /\ win_content.pixel_size = 3

\* the snapshot is at least as large as the extraction square
SnapshotCoversSquare == root_width >= RectSide /\ root_height >= RectSide
\* position (r, c) of the buffer has no pixel of the screen to show
OffScreen(r, c) ==
    \/ ScreenCoord(initial_point[1], c) < 0
    \/ ScreenCoord(initial_point[1], c) >= root_width
    \/ ScreenCoord(initial_point[2], r) < 0
    \/ ScreenCoord(initial_point[2], r) >= root_height

\* C20: on a snapshot at least S wide and S high the extraction never indexes
\* outside the snapshot or outside its S * S buffer, for any i16 pointer
\* coordinate (negative and far off-screen ones included): the call returns,
\* and every position with no pixel of the screen to show is transparent
C20_LargeSnapshotNeverOutOfRange ==
    (RenderCalled /\ SnapshotCoversSquare) =>
        /\ pc = "rendered"
        /\ ~win_content.panic
        /\ Len(win_content.pixels) = RectSide * RectSide
        /\ \A r \in 0..(RectSide - 1), c \in 0..(RectSide - 1) :
              OffScreen(r, c) =>
                  win_content.pixels[r * RectSide + c + 1] = TRANSPARENT

\* a pointer one column left of the screen and at the far end of i16 below
\* it, S = 3: the call returned an all-transparent buffer
C20_Witness ==
    /\ pc = "rendered"
    /\ SnapshotCoversSquare
    /\ RectSide = 3
    /\ initial_point = << -1, I16Max >>
    /\ \A i \in 1..9 : win_content.pixels[i] = TRANSPARENT

(* ------------------------------------------------------------------ *)
(* Properties of the overlay and of the request order (Spec)           *)
(* ------------------------------------------------------------------ *)
MotionHandled == pc = "loop" /\ event.type = "motion_notify"

\* C14: the coordinates of a motion event are clamped to [0, W-1] x [0, H-1]
\* before the snapshot is indexed, so the frame shown after a motion event is
\* the frame of the nearest pixel of the screen
C14_MotionFrameOfNearestPixel ==
    MotionHandled =>
        win_content =
            render_magnifier_from_cache(screenshot_cache, root_width,
                root_height,
                << Clamped(event.x, root_width), Clamped(event.y, root_height) >>,
                preview_width, scale)

\* the step taken sends the named request
Sends(r) == \E i \in 1..Len(requests') : requests'[i] = r

\* C16: the overlay window is created once, off-screen, and mapped before any
\* image is uploaded to it and before it is moved; it stays mapped while the
\* keyboard is grabbed and through every iteration of the loop, every upload
\* and every move goes to the mapped window, and it is unmapped only by the
\* teardown, in the step before the one that destroys it
C16_OverlayCreatedOnceKeptMapped ==
    /\ [](pc \in {"grab_keyboard", "loop"} => win = "mapped")
    /\ [](pc = "destroy_window" => win = "unmapped")
    /\ [][ /\ Sends("create_window") =>
                 /\ win = "none"
                 /\ win' = "unmapped"
                 /\ win_pos' = << OFF_SCREEN, OFF_SCREEN >>
           /\ (win # "none") => (win' # "none")
           /\ (win = "none" /\ win' # "none") => Sends("create_window")
           /\ Sends("map_window") =>
                 /\ win = "unmapped" /\ win' = "mapped"
                 /\ win_content = NoFrame
                 /\ win_pos = << OFF_SCREEN, OFF_SCREEN >>
           /\ Sends("put_image") => (win = "mapped" /\ win' = "mapped")
           /\ Sends("configure_window") => (win = "mapped" /\ win' = "mapped")
           /\ (win_content' # win_content /\ win' # "destroyed") =>
                 Sends("put_image")
           /\ (win_pos' # win_pos /\ win' # "destroyed") =>
                 Sends("configure_window")
           /\ (win = "mapped" /\ win' # "mapped") =>
                 /\ win' = "unmapped"
                 /\ pc = "unmap_window"
                 /\ pc' = "destroy_window"
           /\ (pc = "destroy_window") => (win' = "destroyed")
           /\ (win = "destroyed") => (win' = "destroyed")
         ]_vars

\* the teardown has unmapped the window that was shown through the loop and
\* followed a motion event; the next step destroys it
C16_Witness ==
    /\ pc = "destroy_window"
    /\ win = "unmapped"
    /\ entered
    /\ win_content # NoFrame
    /\ win_pos # << OFF_SCREEN, OFF_SCREEN >>

\* C17: a motion event at (px, py) is handled by computing the frame for
\* (px, py), uploading it, moving the window's top-left corner to
\* (px - win_size/2, py - win_size/2) and flushing, in this order; so after
\* every handled motion event the content and the position of the overlay are
\* those of that event and the overlay is centred on the pointer
C17_MotionUpdatesContentThenPosition ==
    MotionHandled =>
        /\ requests = << "put_image", "configure_window", "flush" >>
        /\ ~unflushed
        /\ win_content =
               render_magnifier_from_cache(screenshot_cache, root_width,
                   root_height, << event.x, event.y >>, preview_width, scale)
        /\ win_pos = << event.x - (preview_width \div 2),
                        event.y - (preview_width \div 2) >>

\* an event the loop ignores: a press of a button other than the primary one,
\* of a key that is neither Escape nor Return, or an event of another type
IgnoredEvent(e) ==
    \/ e.type = "button_press" /\ e.detail # SELECTION_BUTTON
    \/ /\ e.type = "key_press"
       /\ e.detail # escape_keycode
       /\ e.detail # return_keycode
    \/ e.type = "other"

\* C18: handling an ignored event sends no request and leaves the content and
\* position of the overlay, the snapshot, both grabs and the pending result
\* as they were; the loop goes on
C18_IgnoredEventsChangeNothing ==
    [][ (pc = "loop" /\ IgnoredEvent(event')) =>
            /\ requests' = << >>
            /\ UNCHANGED << win, win_pos, win_content, shown >>
            /\ UNCHANGED << screenshot_cache, captures >>
            /\ UNCHANGED << pointer_grab, keyboard_grab, pointer_grabs,
                            keyboard_grabs >>
            /\ UNCHANGED << result, ret, pc, unflushed >>
            /\ UNCHANGED << blank_cursor, colormap, gc >>
      ]_vars

\* a key that is neither Escape nor Return has been pressed during the
\* session and the loop is waiting for the next event, grabs held
C18_Witness ==
    /\ pc = "loop"
    /\ event.type = "key_press"
    /\ IgnoredEvent(event)
    /\ result = Unset
    /\ pointer_grab
    /\ keyboard_grab
    /\ win = "mapped"

\* C19: set-up proceeds in the order: Escape keycode, Return keycode, blank
\* cursor, pointer grab, snapshot, colormap and off-screen window, map, first
\* frame, move on-screen, keyboard grab, loop.  Each stage is in place only
\* when the stage before it is; in particular the first frame is uploaded to
\* a mapped window and the keyboard grab is attempted only after the move
C19_SetupOrder ==
    /\ (return_keycode # 0) => (escape_keycode # 0)
    /\ (blank_cursor # "none") => (return_keycode # 0)
    /\ (pointer_grabs > 0) => (blank_cursor # "none")
    /\ (captures > 0) => (pointer_grabs > 0)
    /\ (colormap # "none") => (captures > 0)
    /\ (win # "none") =>
          (colormap # "none" /\ (win = "unmapped" /\ ~shown =>
                                    win_pos = << OFF_SCREEN, OFF_SCREEN >>))
    /\ (win = "unmapped" /\ ~entered) => (win_content = NoFrame /\ ~shown)
    /\ (win_content # NoFrame) => (win # "none")
    /\ (shown /\ ~entered) => (win = "mapped" /\ win_content # NoFrame)
    /\ (attempts > 0 \/ keyboard_grabs > 0) => shown
    /\ entered => (keyboard_grabs > 0 /\ shown)
    /\ (pc = "loop") => entered

\* the loop has just been entered: every stage of the set-up has run
C19_Witness ==
    /\ pc = "loop"
    /\ event = NoEvent
    /\ requests = << >>
    /\ keyboard_grabs = 1
    /\ pointer_grabs = 1
    /\ captures = 1
    /\ win = "mapped"
    /\ shown
    /\ win_content # NoFrame

====
